---- MODULE Spec2Model ----
(***************************************************************************)
(* Vacanalyzer: the import pipeline of functions/database.py.              *)
(* Strings that the code takes apart (titles, location display names,      *)
(* artifact paths, technology names) are sequences of one-character        *)
(* strings; opaque strings (ids, descriptions, URLs, company names) are    *)
(* TLA+ strings.  JSON / Python values are tagged records.                 *)
(***************************************************************************)
EXTENDS Integers, Sequences, FiniteSets, TLC

(* ---- bounds of the model ---- *)
\* records read from snapshots in one behaviour
MaxRecords == 2
\* calls of import_jobs_from_json in one behaviour
MaxImports == 2

(* ---- JSON / Python values ---- *)
\* Python None, JSON null, SQL NULL
Null == [t |-> "null"]
\* a key that the mapping does not have
Absent == [t |-> "absent"]
Str(s) == [t |-> "str", s |-> s]
Num(n) == [t |-> "num", n |-> n]
\* a nested mapping with the single key display_name
Obj(dn) == [t |-> "obj", display_name |-> dn]
\* variant: dict.get(key), without the default
Get_NoDefault(v, default) == IF v = Absent THEN Null ELSE v
\* dict.get(key, default)
Get(v, default) == IF v = Absent THEN default ELSE v
\* Python truthiness of a value read from the record
Truthy(v) ==
    CASE v.t = "null" -> FALSE
      [] v.t = "str" -> v.s # <<>>
      [] v.t = "num" -> v.n # 0
      [] v.t = "list" -> v.items # <<>>
      [] OTHER -> TRUE

(* ---- characters ---- *)
UpperChars == <<"A", "B", "C", "D", "E", "F", "G", "H", "I", "J", "K", "L", "M", "N", "O", "P", "Q", "R", "S", "T", "U", "V", "W", "X", "Y", "Z">>
LowerChars == <<"a", "b", "c", "d", "e", "f", "g", "h", "i", "j", "k", "l", "m", "n", "o", "p", "q", "r", "s", "t", "u", "v", "w", "x", "y", "z">>
IsUpper(c) == \E i \in 1..Len(UpperChars) : UpperChars[i] = c
LowerChar(c) ==
    IF IsUpper(c)
    THEN LowerChars[CHOOSE i \in 1..Len(UpperChars) : UpperChars[i] = c]
    ELSE c
\* str.lower()
Lower(s) == [i \in 1..Len(s) |-> LowerChar(s[i])]
IsSpace(c) == c \in {" ", "\t", "\n"}
IsDigit(c) == c \in {"0", "1", "2", "3", "4", "5", "6", "7", "8", "9"}
DigitVal(c) ==
    CASE c = "0" -> 0 [] c = "1" -> 1 [] c = "2" -> 2 [] c = "3" -> 3
      [] c = "4" -> 4 [] c = "5" -> 5 [] c = "6" -> 6 [] c = "7" -> 7
      [] c = "8" -> 8 [] c = "9" -> 9

\* str.split(): the maximal runs of non-whitespace characters, in order
RECURSIVE SplitWs(_, _, _)
SplitWs(s, i, cur) ==
    IF i > Len(s)
    THEN IF cur = <<>> THEN <<>> ELSE <<cur>>
    ELSE IF IsSpace(s[i])
         THEN (IF cur = <<>> THEN <<>> ELSE <<cur>>) \o SplitWs(s, i + 1, <<>>)
         ELSE SplitWs(s, i + 1, Append(cur, s[i]))

\* str.split(","): the pieces between commas, empty pieces included
RECURSIVE SplitComma(_, _, _)
SplitComma(s, i, cur) ==
    IF i > Len(s)
    THEN <<cur>>
    ELSE IF s[i] = ","
         THEN <<cur>> \o SplitComma(s, i + 1, <<>>)
         ELSE SplitComma(s, i + 1, Append(cur, s[i]))

\* str.strip()
RECURSIVE LStrip(_)
LStrip(s) == IF s # <<>> /\ IsSpace(Head(s)) THEN LStrip(Tail(s)) ELSE s
RECURSIVE RStrip(_)
RStrip(s) ==
    IF s # <<>> /\ IsSpace(s[Len(s)]) THEN RStrip(SubSeq(s, 1, Len(s) - 1)) ELSE s
Strip(s) == RStrip(LStrip(s))

(* ---- extract_tech ---- *)
KNOWN_TECHS ==
    { <<"S", "A", "P">>, <<"C", "l", "o", "j", "u", "r", "e">>,
      <<"C", "#">>, <<"J", "a", "v", "a">>,
      <<"C", "+", "+">>, <<"P", "H", "P">>,
      <<"P", "y", "t", "h", "o", "n">>, <<"J", "a", "v", "a", "S", "c", "r", "i", "p", "t">>,
      <<"A", "W", "S">>, <<"V", "H", "D", "L">>,
      <<"C", "O", "B", "O", "L">>, <<"R", "P", "G">>,
      <<"D", "e", "l", "p", "h", "i">>, <<"A", "n", "g", "u", "l", "a", "r">>,
      <<"T", "y", "p", "e", "S", "c", "r", "i", "p", "t">>, <<"G", "o">>,
      <<"R", "u", "b", "y">>, <<"S", "Q", "L">>,
      <<"P", "L", "/", "S", "Q", "L">>, <<"A", "B", "A", "P">>,
      <<"N", "o", "d", "e", "J", "S">>, <<"F", "l", "u", "t", "t", "e", "r">>,
      <<"S", "c", "a", "l", "a">>, <<"K", "o", "t", "l", "i", "n">>,
      <<"R", "u", "s", "t">>, <<".", "N", "E", "T">>,
      <<"i", "O", "S">>, <<"A", "n", "d", "r", "o", "i", "d">> }
IGNORE_WORDS ==
    { <<"s", "o", "f", "t", "w", "a", "r", "e", "e", "n", "t", "w", "i", "c", "k", "l", "e", "r">>, <<"e", "n", "t", "w", "i", "c", "k", "l", "e", "r">>,
      <<"e", "n", "t", "w", "i", "c", "k", "l", "e", "r", "i", "n">>, <<"e", "n", "t", "w", "i", "c", "k", "l", "e", "r", "/", "i", "n">>,
      <<"s", "o", "f", "t", "w", "a", "r", "e">>, <<"p", "r", "o", "g", "r", "a", "m", "m", "i", "e", "r", "e", "r">>,
      <<"m", "/", "w", "/", "d">>, <<"m", "w", "d">>,
      <<":", "i", "n">>, <<"l", "e", "i", "t", "e", "r">>,
      <<"t", "e", "a", "m", "l", "e", "i", "t", "u", "n", "g">>, <<"p", "r", "o", "j", "e", "k", "t", "l", "e", "i", "t", "e", "r">>,
      <<"s", "e", "n", "i", "o", "r">>, <<"j", "u", "n", "i", "o", "r">>,
      <<"f", "u", "l", "l", "s", "t", "a", "c", "k">>, <<"p", "r", "a", "k", "t", "i", "k", "u", "m">>,
      <<"s", "t", "u", "d", "e", "n", "t">>, <<"w", "e", "r", "k", "s", "t", "u", "d", "e", "n", "t">>,
      <<"t", "r", "a", "i", "n", "e", "e">>, <<"d", "u", "a", "l">>,
      <<"m", "i", "t">>, <<"i", "n">>,
      <<"a", "l", "s">> }
OtherTech == <<"O", "t", "h", "e", "r">>

\* the first ")" after position i that "." can reach (no newline in between), or 0
CloseParen(s, i) ==
    LET js == {j \in (i + 1)..Len(s) :
                  /\ s[j] = ")"
                  /\ \A k \in (i + 1)..(j - 1) : s[k] # ")" /\ s[k] # "\n"}
    IN IF js = {} THEN 0 ELSE CHOOSE j \in js : TRUE

\* variant: the slash takes the rest of the line with it, as "/.*" would
RECURSIVE CleanTitle_SlashToEnd(_, _)
CleanTitle_SlashToEnd(s, i) ==
    IF i > Len(s) THEN <<>>
    ELSE IF s[i] = "(" /\ CloseParen(s, i) # 0
         THEN <<" ">> \o CleanTitle_SlashToEnd(s, CloseParen(s, i) + 1)
    ELSE IF s[i] = "/" THEN <<" ">>
    ELSE IF s[i] \in {"-", ","} THEN <<" ">> \o CleanTitle_SlashToEnd(s, i + 1)
    ELSE <<s[i]>> \o CleanTitle_SlashToEnd(s, i + 1)
\* re.sub(r"\(.*?\)|/.*?|[-,]", " ", title): the lazy ".*?" that ends the second
\* alternative matches the empty string, so that alternative is the slash alone
RECURSIVE CleanTitle(_, _)
CleanTitle(s, i) ==
    IF i > Len(s) THEN <<>>
    ELSE IF s[i] = "(" /\ CloseParen(s, i) # 0
         THEN <<" ">> \o CleanTitle(s, CloseParen(s, i) + 1)
    ELSE IF s[i] = "/" THEN <<" ">> \o CleanTitle(s, i + 1)
    ELSE IF s[i] \in {"-", ","} THEN <<" ">> \o CleanTitle(s, i + 1)
    ELSE <<s[i]>> \o CleanTitle(s, i + 1)

TitleWords(title) == SplitWs(Lower(CleanTitle(title, 1)), 1, <<>>)

\* variant: a word matches the vocabulary members it starts with
TechMatches_Prefix(word) ==
    {tech \in KNOWN_TECHS :
        /\ Len(tech) <= Len(word)
        /\ SubSeq(word, 1, Len(tech)) = Lower(tech)}
\* the vocabulary members the inner loop can return for one word
TechMatches(word) == {tech \in KNOWN_TECHS : word = Lower(tech)}

\* the outer loop over words, from word k on
RECURSIVE ScanWords(_, _)
ScanWords(words, k) ==
    IF k > Len(words) THEN OtherTech
    ELSE IF words[k] \in IGNORE_WORDS THEN ScanWords(words, k + 1)
    ELSE IF TechMatches(words[k]) # {}
         THEN CHOOSE tech \in TechMatches(words[k]) : TRUE
         ELSE ScanWords(words, k + 1)

\* extract_tech(title), title a value read from the record: re.sub on a value
\* that is not a string raises TypeError, which the function catches
extract_tech(title) ==
    IF title.t # "str" THEN OtherTech ELSE ScanWords(TitleWords(title.s), 1)

(* ---- the date in the artifact path ---- *)
\* re.search(r"(\d{4}-\d{2}-\d{2})", json_path) matches at position i
DateAt(p, i) ==
    /\ i + 9 <= Len(p)
    /\ \A k \in {0, 1, 2, 3, 5, 6, 8, 9} : IsDigit(p[i + k])
    /\ p[i + 4] = "-"
    /\ p[i + 7] = "-"
\* the leftmost match, or 0
DateMatch(p) ==
    LET is == {i \in 1..Len(p) : DateAt(p, i)}
    IN IF is = {} THEN 0 ELSE CHOOSE i \in is : \A j \in is : i <= j
DaysInMonth(y, m) ==
    IF m = 2
    THEN (IF (y % 4 = 0 /\ y % 100 # 0) \/ y % 400 = 0 THEN 29 ELSE 28)
    ELSE IF m \in {4, 6, 9, 11} THEN 30 ELSE 31
\* datetime.strptime(text, "%Y-%m-%d").date() on the match at i:
\* a date [y, m, d], or Null where strptime raises ValueError
Strptime(p, i) ==
    LET y == 1000 * DigitVal(p[i]) + 100 * DigitVal(p[i + 1])
               + 10 * DigitVal(p[i + 2]) + DigitVal(p[i + 3])
        m == 10 * DigitVal(p[i + 5]) + DigitVal(p[i + 6])
        d == 10 * DigitVal(p[i + 8]) + DigitVal(p[i + 9])
    IN IF y >= 1 /\ m \in 1..12 /\ d >= 1 /\ d <= DaysInMonth(y, m)
       THEN [t |-> "date", y |-> y, m |-> m, d |-> d]
       ELSE Null

(* ---- location display names ---- *)
SENTINEL == <<"D", "e", "u", "t", "s", "c", "h", "l", "a", "n", "d">>
\* [p.strip() for p in display_name.split(",")]
LocationParts(dn) ==
    LET raw == SplitComma(dn, 1, <<>>) IN [i \in 1..Len(raw) |-> Strip(raw[i])]
\* district_name, city_name
ParseLocation(dn) ==
    LET parts == LocationParts(dn)
    IN IF Len(parts) = 2
       THEN [district |-> Str(parts[1]), city |-> parts[2]]
       ELSE [district |-> Null, city |-> parts[1]]

(* ---- inputs of the model ---- *)
TitlePython == <<"S", "e", "n", "i", "o", "r", " ", "P", "y", "t", "h", "o", "n", " ", "E", "n", "t", "w", "i", "c", "k", "l", "e", "r">>
TitleJava == <<"F", "u", "l", "l", "s", "t", "a", "c", "k", " ", "J", "a", "v", "a", " ", "/", " ", "P", "y", "t", "h", "o", "n", " ", "D", "e", "v", "e", "l", "o", "p", "e", "r">>
NameBerlin == <<"B", "e", "r", "l", "i", "n">>
NameThreeParts == <<"M", "i", "t", "t", "e", ",", " ", "B", "e", "r", "l", "i", "n", ",", " ", "D", "E">>
NameMitteBerlin == <<"M", "i", "t", "t", "e", ",", " ", "B", "e", "r", "l", "i", "n">>
PathDay1 == <<"a", "l", "l", "_", "j", "o", "b", "s", "_", "2", "0", "2", "5", "-", "0", "9", "-", "0", "8", ".", "j", "s", "o", "n">>
PathDay2 == <<"a", "l", "l", "_", "j", "o", "b", "s", "_", "2", "0", "2", "5", "-", "0", "9", "-", "0", "9", ".", "j", "s", "o", "n">>
PathBadMonth == <<"a", "l", "l", "_", "j", "o", "b", "s", "_", "2", "0", "2", "5", "-", "1", "3", "-", "0", "1", ".", "j", "s", "o", "n">>
PathNoDate == <<"j", "o", "b", "s", ".", "j", "s", "o", "n">>
\* external job identifiers
JobIds == {Str("j1"), Str("j2")}
\* two postings' worth of Job fields that differ in every field
FieldsA ==
    [title |-> Str(TitlePython), description |-> Str("d1"),
     salary_is_predicted |-> Str("0"), redirect_url |-> Str("u1"),
     company |-> Obj(Str("c1"))]
FieldsB ==
    [title |-> Str(TitleJava), description |-> Str("d2"),
     salary_is_predicted |-> Str("1"), redirect_url |-> Str("u2"),
     company |-> Obj(Str("c2"))]
\* a posting in which every optional key is missing
FieldsBare ==
    [title |-> Absent, description |-> Absent, salary_is_predicted |-> Absent,
     redirect_url |-> Absent, company |-> Absent]
\* postings whose processing raises: a null title, a null company
FieldsNullTitle == [FieldsA EXCEPT !.title = Null]
FieldsNullCompany == [FieldsA EXCEPT !.company = Null]

\* (latitude, longitude) pairs of the postings
CoordPairs ==
    {<<Null, Null>>, <<Num(1), Num(1)>>, <<Num(2), Num(1)>>, <<Num(2), Null>>}
\* locations that name a city
CityLocations == {Obj(Str(NameBerlin)), Obj(Str(NameMitteBerlin))}
\* locations that name none: key missing, display name missing, the sentinel
NoCityLocations == {Absent, Obj(Absent), Obj(Str(SENTINEL))}

MapRecord(id, f, loc, lat, lon) ==
    [t |-> "obj", id |-> id, title |-> f.title, description |-> f.description,
     salary_is_predicted |-> f.salary_is_predicted,
     redirect_url |-> f.redirect_url, company |-> f.company,
     location |-> loc, latitude |-> lat, longitude |-> lon]

\* postings that differ in where they are
PlacedRecords ==
    {MapRecord(Str("j1"), FieldsA, loc, c[1], c[2]) :
        loc \in CityLocations, c \in CoordPairs}
    \cup {MapRecord(Str("j2"), FieldsA, loc, Num(1), Num(1)) : loc \in CityLocations}
\* postings that differ in what the Job holds
JobRecords ==
    {MapRecord(Str("j1"), FieldsB, loc, Absent, Absent) :
        loc \in {Absent, Obj(Str(SENTINEL))}}
    \cup {MapRecord(id, FieldsB, Obj(Str(NameBerlin)), Num(1), Num(1)) : id \in JobIds}
    \cup {MapRecord(id, FieldsA, Obj(Str(SENTINEL)), Num(1), Num(1)) : id \in JobIds}
\* postings with missing or null parts, a display name of three parts, and an
\* element that is no mapping
OddRecords ==
    {MapRecord(Str("j1"), f, Obj(Str(NameBerlin)), Num(1), Num(1)) :
        f \in {FieldsBare, FieldsNullTitle, FieldsNullCompany}}
    \cup {MapRecord(Absent, FieldsA, Obj(Str(NameBerlin)), Num(1), Num(1)),
          MapRecord(Str("j1"), FieldsA, Null, Num(1), Num(1)),
          MapRecord(Str("j1"), FieldsA, Obj(Absent), Num(1), Num(1)),
          MapRecord(Str("j1"), FieldsA, Obj(Str(NameThreeParts)), Num(1), Num(1)),
          Str(<<"x">>)}

\* the elements a snapshot list can hold
Records == PlacedRecords \cup JobRecords \cup OddRecords

\* extract_tech and the location parse on the values the records carry
Titles == {Get(r.title, Str(<<>>)) : r \in {x \in Records : x.t = "obj"}}
TechOfTitle == [title \in Titles |-> extract_tech(title)]
DisplayNames ==
    {Get(Get(r.location, Obj(Absent)).display_name, Null).s :
        r \in {x \in Records :
                 /\ x.t = "obj"
                 /\ Get(x.location, Obj(Absent)).t = "obj"
                 /\ Get(Get(x.location, Obj(Absent)).display_name, Null).t = "str"}}
LocationOf == [dn \in DisplayNames |-> ParseLocation(dn)]

Paths == {PathDay1, PathDay2, PathBadMonth, PathNoDate}
\* lines 94-95 on the paths of the model: job_date, or "ValueError"
PathDate(path) ==
    LET m == DateMatch(path)
    IN IF m = 0 THEN Null
       ELSE IF Strptime(path, m) = Null THEN [t |-> "ValueError"]
       ELSE Strptime(path, m)
DateOf == [path \in Paths |-> PathDate(path)]
\* what is at the path: no file, a file that is not JSON, a JSON list
Contents == {"missing", "invalid", "list"}

(* ---- state ---- *)
VARIABLES
    techs,      \* Tech rows, in insertion order: [name]
    locs,       \* Location rows: [display_name]
    jobs,       \* Job rows
    jobLocs,    \* JobLocation rows
    pc,         \* "idle", or "loop" inside the for loop of import_jobs_from_json
    imports,    \* calls of import_jobs_from_json so far
    json_path,  \* argument of the current (last) call
    content,    \* what the call found at json_path
    job_date,   \* the date derived from json_path
    remaining,  \* elements of jobs_data not yet iterated
    seen,       \* elements iterated so far, over all calls
    job_data,   \* the loop variable: the element processed last
    exc,        \* the exception raised by the last step, "none" if none
    log,        \* the logger calls of the last step
    writes,     \* the database writes of the last step
    escaped,    \* an exception left import_jobs_from_json
    outcome,    \* how the last call ended
    firstDate,  \* history: job_date of the import that inserted each id
    lastRec,    \* history: per id, the Job fields of the record processed last
    artifact,   \* the snapshot file of the re-import scenario
    firstCounts, \* history: row counts when the first call returned
    cls_title,  \* extract_tech: the argument of the call
    cls_ret,    \* extract_tech: what the call returned, Null before it returns
    cls_log,    \* extract_tech: the logger calls of the call
    cls_escaped, \* extract_tech: an exception left the call
    loads,      \* load_jobs: calls so far
    df,         \* load_jobs: the table the last call returned, Null if none
    load_exc,   \* load_jobs: the exception that left the last call, "none" if none
    fetch_pc,   \* fetch_jobs: "idle", "request" (in the while loop), "write", "done"
    app_id,     \* fetch_jobs: os.getenv("ADZUNA_APP_ID")
    app_key,    \* fetch_jobs: os.getenv("ADZUNA_APP_KEY")
    page,       \* fetch_jobs: the page to request next
    all_jobs,   \* fetch_jobs: the postings collected so far
    fetch_events, \* history: the calls of requests.get and of sleep_func, in order
    fetch_pages,  \* history: what each request returned
    fetch_log,  \* fetch_jobs: the logger calls so far
    fetch_file, \* the file fetch_jobs wrote, Null if none
    fetch_ret,  \* what fetch_jobs returned
    fetch_escaped \* an exception left fetch_jobs

db == <<techs, locs, jobs, jobLocs>>
vars ==
    <<techs, locs, jobs, jobLocs, pc, imports, json_path, content, job_date,
      remaining, seen, job_data, exc, log, writes, escaped, outcome, firstDate,
      lastRec, artifact, firstCounts, cls_title, cls_ret, cls_log, cls_escaped,
      loads, df, load_exc, fetch_pc, app_id, app_key, page, all_jobs,
      fetch_events, fetch_pages, fetch_log, fetch_file, fetch_ret, fetch_escaped>>
\* the state of import_jobs_from_json
importVars ==
    <<techs, locs, jobs, jobLocs, pc, imports, json_path, content, job_date,
      remaining, seen, job_data, exc, log, writes, escaped, outcome, firstDate,
      lastRec>>
\* the state of the calls of the other functions
clsVars == <<cls_title, cls_ret, cls_log, cls_escaped>>
loadVars == <<loads, df, load_exc>>
fetchVars ==
    <<fetch_pc, app_id, app_key, page, all_jobs, fetch_events, fetch_pages,
      fetch_log, fetch_file, fetch_ret, fetch_escaped>>
otherCalls == <<clsVars, loadVars, fetchVars>>

SetMin(S) == CHOOSE i \in S : \A j \in S : i <= j

(* ---- the storage calls ---- *)
\* variant: the row is created without looking for it first
TechGetOrCreate_AlwaysCreates(rows, name) ==
    [rows |-> Append(rows, [name |-> name]), id |-> Len(rows) + 1, created |-> TRUE]
\* Tech.get_or_create(name=tech_name)
TechGetOrCreate(rows, name) ==
    LET hits == {i \in DOMAIN rows : rows[i].name = name}
    IN IF hits # {}
       THEN [rows |-> rows, id |-> SetMin(hits), created |-> FALSE]
       ELSE [rows |-> Append(rows, [name |-> name]), id |-> Len(rows) + 1,
             created |-> TRUE]

\* Location.get_or_create(display_name=city_name)
LocationGetOrCreate(rows, name) ==
    LET hits == {i \in DOMAIN rows : rows[i].display_name = name}
    IN IF hits # {}
       THEN [rows |-> rows, id |-> SetMin(hits), created |-> FALSE]
       ELSE [rows |-> Append(rows, [display_name |-> name]),
             id |-> Len(rows) + 1, created |-> TRUE]

\* the columns of Job declared without null=True
NotNullViolated(row) ==
    \/ row.job_id = Null
    \/ row.title = Null
    \/ row.description = Null
    \/ row.redirect_url = Null
    \/ row.company = Null

\* Job.get_or_create(job_id=job_id, defaults={...})
JobGetOrCreate(rows, job_id, defaults) ==
    LET hits == {i \in DOMAIN rows : rows[i].job_id = job_id}
        row == [job_id |-> job_id, title |-> defaults.title,
                description |-> defaults.description,
                salary_is_predicted |-> defaults.salary_is_predicted,
                redirect_url |-> defaults.redirect_url,
                company |-> defaults.company, tech |-> defaults.tech,
                date |-> defaults.date]
    IN IF hits # {}
       THEN [rows |-> rows, id |-> SetMin(hits), created |-> FALSE, exc |-> "none"]
       ELSE IF NotNullViolated(row)
       THEN [rows |-> rows, id |-> 0, created |-> FALSE, exc |-> "IntegrityError"]
       ELSE [rows |-> Append(rows, row), id |-> Len(rows) + 1, created |-> TRUE,
             exc |-> "none"]

\* variant: the update also assigns the date
JobUpdate_SetsDate(rows, id, f) ==
    LET row == [rows[id] EXCEPT !.title = f.title,
                                !.description = f.description,
                                !.salary_is_predicted = f.salary_is_predicted,
                                !.redirect_url = f.redirect_url,
                                !.company = f.company,
                                !.tech = f.tech,
                                !.date = f.date]
    IN IF NotNullViolated(row)
       THEN [rows |-> rows, exc |-> "IntegrityError"]
       ELSE [rows |-> [rows EXCEPT ![id] = row], exc |-> "none"]
\* variant: the update leaves the company out
JobUpdate_KeepsCompany(rows, id, f) ==
    LET row == [rows[id] EXCEPT !.title = f.title,
                                !.description = f.description,
                                !.salary_is_predicted = f.salary_is_predicted,
                                !.redirect_url = f.redirect_url,
                                !.tech = f.tech]
    IN IF NotNullViolated(row)
       THEN [rows |-> rows, exc |-> "IntegrityError"]
       ELSE [rows |-> [rows EXCEPT ![id] = row], exc |-> "none"]
\* the branch "if not created": six assignments and job.save()
JobUpdate(rows, id, f) ==
    LET row == [rows[id] EXCEPT !.title = f.title,
                                !.description = f.description,
                                !.salary_is_predicted = f.salary_is_predicted,
                                !.redirect_url = f.redirect_url,
                                !.company = f.company,
                                !.tech = f.tech]
    IN IF NotNullViolated(row)
       THEN [rows |-> rows, exc |-> "IntegrityError"]
       ELSE [rows |-> [rows EXCEPT ![id] = row], exc |-> "none"]

\* variant: the comparison of SQL, in which NULL equals nothing
DistrictMatches_SqlEquals(col, district_name) ==
    col # Null /\ district_name # Null /\ col = district_name
\* variant: an absent district matches every row
DistrictMatches_Wildcard(col, district_name) ==
    col = district_name \/ district_name = Null
\* the where clause on district: peewee turns "== None" into IS NULL
DistrictMatches(col, district_name) ==
    \/ col = district_name
    \/ (col = Null /\ district_name = Null)

\* JobLocation.select().where(...).first(): the id of the row, or 0
JobLocLookup(rows, job, loc, district_name) ==
    LET hits == {i \in DOMAIN rows :
                    /\ rows[i].job = job
                    /\ rows[i].location = loc
                    /\ DistrictMatches(rows[i].district, district_name)}
    IN IF hits = {} THEN 0 ELSE SetMin(hits)

\* variant: the incoming coordinate is not tested for None
JobLocUpdate_NoNullCheck(row, latitude, longitude) ==
    LET newLat == row.latitude # latitude
        newLon == row.longitude # longitude
    IN [row |-> [row EXCEPT !.latitude = IF newLat THEN latitude ELSE @,
                            !.longitude = IF newLon THEN longitude ELSE @],
        updated |-> newLat \/ newLon]
\* the branch "if job_loc_query": the row after the two conditional assignments
JobLocUpdate(row, latitude, longitude) ==
    LET newLat == latitude # Null /\ row.latitude # latitude
        newLon == longitude # Null /\ row.longitude # longitude
    IN [row |-> [row EXCEPT !.latitude = IF newLat THEN latitude ELSE @,
                            !.longitude = IF newLon THEN longitude ELSE @],
        updated |-> newLat \/ newLon]

(* ---- one iteration of the for loop ---- *)
\* variant: the sentinel is not excluded
HasCityName_NoSentinel(display_name) == Truthy(display_name)
\* line 140: if display_name and display_name != "Deutschland"
HasCityName(display_name) == Truthy(display_name) /\ display_name # Str(SENTINEL)

Result(T, L, J, JL, e, w) ==
    [techs |-> T, locs |-> L, jobs |-> J, jobLocs |-> JL, exc |-> e, writes |-> w]

\* an exception leaves the iteration: what was written so far stays written
Raise(s, e) == [s EXCEPT !.exc = e]
Wrote(s, w) == [s EXCEPT !.writes = @ \cup {w}]

\* lines 135-136: location_info.get("display_name")
DisplayNameOf(r) == Get(Get(r.location, Obj(Absent)).display_name, Null)

\* lines 156-165: u is the row after the two tests; it is saved if one held
JobLocSave(s, q, u) ==
    IF u.updated
    THEN Wrote([s EXCEPT !.jobLocs[q] = u.row], "JobLocation.save")
    ELSE s

\* lines 155-173: q is what the lookup returned; the row is updated or created
JobLocStep(r, s, job, loc, district, q) ==
    IF q # 0
    THEN JobLocSave(s, q, JobLocUpdate(s.jobLocs[q], Get(r.latitude, Null),
                                       Get(r.longitude, Null)))
    ELSE Wrote([s EXCEPT !.jobLocs =
                   Append(@, [job |-> job, location |-> loc,
                              district |-> district,
                              latitude |-> Get(r.latitude, Null),
                              longitude |-> Get(r.longitude, Null)])],
               "JobLocation.create")

\* lines 147-154: lg is what Location.get_or_create returned
CityStep(r, s, job, district, lg) ==
    JobLocStep(r, IF lg.created
                  THEN Wrote([s EXCEPT !.locs = lg.rows], "Location.create")
                  ELSE s,
               job, lg.id, district,
               JobLocLookup(s.jobLocs, job, lg.id, district))

\* lines 141-147: p is district_name and city_name
PartsStep(r, s, job, p) ==
    CityStep(r, s, job, p.district, LocationGetOrCreate(s.locs, p.city))

\* lines 135-173: the location part, for the Job row with id job
LocationStep(r, s, job) ==
    IF Get(r.location, Obj(Absent)).t # "obj" THEN Raise(s, "AttributeError")
    ELSE IF ~HasCityName(DisplayNameOf(r)) THEN s
    ELSE PartsStep(r, s, job, LocationOf[DisplayNameOf(r).s])

\* lines 126-133: ju is what the assignments and job.save() left
JobSaveStep(r, s, job, ju) ==
    IF ju.exc # "none" THEN Raise(s, ju.exc)
    ELSE LocationStep(r, Wrote([s EXCEPT !.jobs = ju.rows], "Job.save"), job)

\* lines 113-133: jg is what Job.get_or_create returned
JobStep(r, s, f, jg) ==
    IF jg.exc # "none" THEN Raise(s, jg.exc)
    ELSE IF jg.created
    THEN LocationStep(r, Wrote([s EXCEPT !.jobs = jg.rows], "Job.create"), jg.id)
    ELSE JobSaveStep(r, s, jg.id, JobUpdate(s.jobs, jg.id, f))

\* lines 104-109 and the defaults of lines 115-123
JobFields(r, tech, date) ==
    [title |-> Get(r.title, Str(<<>>)),
     description |-> Get(r.description, Str("")),
     salary_is_predicted |-> (Get(r.salary_is_predicted, Null) = Str("1")),
     redirect_url |-> Get(r.redirect_url, Str("")),
     company |-> Get(Get(r.company, Obj(Absent)).display_name, Str("")),
     tech |-> tech, date |-> date]

\* lines 113-124: f is the fields of the record
FieldsStep(r, s, f) == JobStep(r, s, f, JobGetOrCreate(s.jobs, Get(r.id, Null), f))

\* lines 111-124: tg is what Tech.get_or_create returned
TechStep(r, s, date, tg) ==
    FieldsStep(r, IF tg.created
                  THEN Wrote([s EXCEPT !.techs = tg.rows], "Tech.create")
                  ELSE s,
               JobFields(r, tg.id, date))

\* line 110: extract_tech(title) or "Other"
OrOther(found) == IF found = <<>> THEN OtherTech ELSE found
TechName(title) == OrOther(TechOfTitle[title])

\* lines 104-173: the body of the inner try, on the element r
RecordResult(r, T, L, J, JL, date) ==
    IF r.t # "obj"
    THEN Result(T, L, J, JL, "AttributeError", {})
    ELSE IF Get(r.company, Obj(Absent)).t # "obj"
    THEN Result(T, L, J, JL, "AttributeError", {})
    ELSE TechStep(r, Result(T, L, J, JL, "none", {}), date,
                  TechGetOrCreate(T, TechName(Get(r.title, Str(<<>>)))))

(* ---- exception handlers ---- *)
\* the except clauses of the inner and of the outer try, in order
InnerHandlers == <<"IntegrityError", "Exception">>
OuterHandlers_OnlyNotFound == <<"FileNotFoundError">>
OuterHandlers == <<"FileNotFoundError", "JSONDecodeError", "Exception">>
\* every exception class of the model derives from Exception
IsA(e, cls) == cls = e \/ cls = "Exception"
\* the clause that catches e, "" if none does
Catch(handlers, e) ==
    LET is == {i \in DOMAIN handlers : IsA(e, handlers[i])}
    IN IF is = {} THEN "" ELSE handlers[SetMin(is)]
OuterLog(h) ==
    CASE h = "FileNotFoundError" -> <<"not_found_error">>
      [] h = "JSONDecodeError" -> <<"decode_error">>
      [] h = "Exception" -> <<"import_exception">>
      [] OTHER -> <<>>

NoHistory == [id \in JobIds |-> [set |-> FALSE]]
RawFields(r) ==
    [title |-> r.title, description |-> r.description,
     salary_is_predicted |-> r.salary_is_predicted,
     redirect_url |-> r.redirect_url, company |-> r.company]

(* ---- import_jobs_from_json ---- *)
\* lines 93-100: the call, up to json.load; n is the length of the loaded list
ImportStart(path, c, n) ==
    /\ pc = "idle"
    /\ imports < MaxImports
    /\ \E d \in {DateOf[path]} :
       \E e \in {IF d.t = "ValueError" THEN "ValueError"
                 ELSE IF c = "missing" THEN "FileNotFoundError"
                 ELSE IF c = "invalid" THEN "JSONDecodeError"
                 ELSE "none"} :
       \E h \in {Catch(OuterHandlers, e)} :
          /\ job_date' = IF d.t = "ValueError" THEN Null ELSE d
          /\ exc' = e
          /\ pc' = IF e = "none" THEN "loop" ELSE "idle"
          /\ remaining' = IF e = "none" THEN n ELSE 0
          /\ log' = (IF d = Null THEN <<"date_warning">> ELSE <<>>)
                    \o (IF e = "none" THEN <<>> ELSE OuterLog(h))
          /\ outcome' = IF e = "none" THEN "running" ELSE "aborted"
          /\ escaped' = (e # "none" /\ h = "")
    /\ imports' = imports + 1
    /\ json_path' = path
    /\ content' = c
    /\ job_data' = Null
    /\ writes' = {}
    /\ UNCHANGED <<techs, locs, jobs, jobLocs, seen, firstDate, lastRec>>

\* lines 102-177: one iteration, on the element r
Process(r) ==
    /\ pc = "loop"
    /\ remaining > 0
    /\ \E res \in {RecordResult(r, techs, locs, jobs, jobLocs, job_date)} :
       \E h \in {Catch(InnerHandlers, res.exc)} :
       \* job_data.get('id') inside the handler's f-string
       \E handlerExc \in {IF res.exc # "none" /\ r.t # "obj"
                          THEN "AttributeError" ELSE "none"} :
       \E oh \in {Catch(OuterHandlers, handlerExc)} :
       \E id \in {IF r.t = "obj" THEN Get(r.id, Null) ELSE Null} :
       \E left \in {handlerExc # "none" \/ (res.exc # "none" /\ h = "")} :
          /\ techs' = res.techs
          /\ locs' = res.locs
          /\ jobs' = res.jobs
          /\ jobLocs' = res.jobLocs
          /\ exc' = res.exc
          /\ writes' = res.writes
          /\ log' = IF res.exc = "none" THEN <<>>
                    ELSE IF handlerExc # "none" THEN OuterLog(oh)
                    ELSE IF h = "IntegrityError" THEN <<"integrity_warning">>
                    ELSE IF h = "Exception" THEN <<"record_exception">>
                    ELSE <<>>
          /\ pc' = IF left THEN "idle" ELSE "loop"
          /\ outcome' = IF left THEN "aborted" ELSE outcome
          /\ escaped' = \/ (handlerExc # "none" /\ oh = "")
                        \/ (res.exc # "none" /\ h = ""
                            /\ Catch(OuterHandlers, res.exc) = "")
          /\ firstDate' = IF "Job.create" \in res.writes /\ ~firstDate[id].set
                          THEN [firstDate EXCEPT ![id] = [set |-> TRUE, date |-> job_date]]
                          ELSE firstDate
          /\ lastRec' = IF id \in JobIds
                        THEN [lastRec EXCEPT ![id] =
                                 IF res.exc = "none"
                                 THEN [set |-> TRUE, f |-> RawFields(r)]
                                 ELSE [set |-> FALSE]]
                        ELSE lastRec
    /\ job_data' = r
    /\ remaining' = remaining - 1
    /\ seen' = seen + 1
    /\ UNCHANGED <<imports, json_path, content, job_date>>

\* line 179: the loop is over
ImportFinish ==
    /\ pc = "loop"
    /\ remaining = 0
    /\ pc' = "idle"
    /\ outcome' = "completed"
    /\ log' = <<"completed_info">>
    /\ exc' = "none"
    /\ writes' = {}
    /\ escaped' = FALSE
    /\ UNCHANGED <<techs, locs, jobs, jobLocs, imports, json_path, content,
                   job_date, remaining, seen, job_data, firstDate, lastRec>>

(* ---- the pipeline: any sequence of imports ---- *)
InitBase ==
    /\ techs = <<>>
    /\ locs = <<>>
    /\ jobs = <<>>
    /\ jobLocs = <<>>
    /\ pc = "idle"
    /\ imports = 0
    /\ json_path = <<>>
    /\ content = "missing"
    /\ job_date = Null
    /\ remaining = 0
    /\ seen = 0
    /\ job_data = Null
    /\ exc = "none"
    /\ log = <<>>
    /\ writes = {}
    /\ escaped = FALSE
    /\ outcome = "none"
    /\ firstDate = NoHistory
    /\ lastRec = NoHistory
    /\ firstCounts = Null

\* no call of extract_tech on its own
ClsIdle ==
    /\ cls_title = Null
    /\ cls_ret = Null
    /\ cls_log = <<>>
    /\ cls_escaped = FALSE

\* no call of load_jobs yet
LoadIdle ==
    /\ loads = 0
    /\ df = Null
    /\ load_exc = "none"

\* no call of fetch_jobs yet
FetchIdle ==
    /\ fetch_pc = "idle"
    /\ app_id = Null
    /\ app_key = Null
    /\ page = 0
    /\ all_jobs = <<>>
    /\ fetch_events = <<>>
    /\ fetch_pages = <<>>
    /\ fetch_log = <<>>
    /\ fetch_file = Null
    /\ fetch_ret = Null
    /\ fetch_escaped = FALSE

Init ==
    /\ InitBase
    /\ artifact = [path |-> <<>>, data |-> <<>>]
    /\ ClsIdle
    /\ LoadIdle
    /\ FetchIdle

Import ==
    /\ \E path \in Paths, c \in Contents, n \in 0..(MaxRecords - seen) : ImportStart(path, c, n)
    /\ UNCHANGED <<artifact, firstCounts, otherCalls>>

ProcessRecord ==
    /\ \E r \in Records : Process(r)
    /\ UNCHANGED <<artifact, firstCounts, otherCalls>>

Finish ==
    /\ ImportFinish
    /\ UNCHANGED <<artifact, firstCounts, otherCalls>>

Next == Import \/ ProcessRecord \/ Finish

Spec == Init /\ [][Next]_vars

(* ---- the same artifact imported again and again ---- *)
MaxArtifact == 2
Snapshots == UNION {[1..n -> Records] : n \in 0..MaxArtifact}
Counts == [techs |-> Len(techs), locs |-> Len(locs), jobs |-> Len(jobs),
           jobLocs |-> Len(jobLocs)]
CountsNext == [techs |-> Len(techs'), locs |-> Len(locs'), jobs |-> Len(jobs'),
               jobLocs |-> Len(jobLocs')]
\* the counts are noted when the first call returns
NoteCounts ==
    firstCounts' = IF pc' = "idle" /\ imports' = 1 THEN CountsNext ELSE firstCounts

InitTwice ==
    /\ InitBase
    /\ ClsIdle
    /\ LoadIdle
    /\ FetchIdle
    /\ artifact \in [path : Paths, data : Snapshots]

ImportFile ==
    /\ ImportStart(artifact.path, "list", Len(artifact.data))
    /\ NoteCounts
    /\ UNCHANGED <<artifact, otherCalls>>

ProcessFileRecord ==
    /\ pc = "loop"
    /\ remaining > 0
    /\ Process(artifact.data[Len(artifact.data) - remaining + 1])
    /\ NoteCounts
    /\ UNCHANGED <<artifact, otherCalls>>

FinishFile ==
    /\ ImportFinish
    /\ NoteCounts
    /\ UNCHANGED <<artifact, otherCalls>>

NextTwice == ImportFile \/ ProcessFileRecord \/ FinishFile

SpecTwice == InitTwice /\ [][NextTwice]_vars

(* ---- extract_tech called on its own ---- *)
\* titles of the tests
TitleJavaScript == <<"J", "a", "v", "a", "S", "c", "r", "i", "p", "t", " ", "D", "e", "v", "e", "l", "o", "p", "e", "r">>
TitleUnknown == <<"U", "n", "k", "n", "o", "w", "n", " ", "R", "o", "l", "e">>
\* pieces of titles, and what stands between two of them
ClassifyTokens ==
    { <<"J", "a", "v", "a">>,
      <<"J", "a", "v", "a", "S", "c", "r", "i", "p", "t", "i", "n", "g">>,
      <<"p", "y", "t", "h", "o", "n">>,
      <<"P", "L", "/", "S", "Q", "L">>,
      <<"(", "G", "o", ")">>,
      <<"S", "e", "n", "i", "o", "r">>,
      <<".", "N", "E", "T">> }
ClassifySeps ==
    { <<" ">>, <<"/">>, <<" ", "/", " ">>, <<"-">>, <<",", " ">>, <<" ", "(">> }
\* pieces in a title
MaxTokens == 2
RECURSIVE JoinedTitles(_)
JoinedTitles(n) ==
    IF n = 1 THEN ClassifyTokens
    ELSE {t \o sep \o tok :
             t \in JoinedTitles(n - 1), sep \in ClassifySeps, tok \in ClassifyTokens}
\* the arguments of the calls: strings, the empty string, values that are no string
ClassifyInputs ==
    {Str(t) : t \in UNION {JoinedTitles(n) : n \in 1..MaxTokens}}
    \cup {Str(TitlePython), Str(TitleJava), Str(TitleJavaScript), Str(TitleUnknown)}
    \cup {Str(<<>>), Null, Num(1)}

\* the except clause of extract_tech (line 69)
ExtractTechHandlers_OnlyValueError == <<"ValueError">>
ExtractTechHandlers == <<"Exception">>

\* lines 60-71: re.sub raises TypeError on a value that is no string
ExtractTechCall ==
    /\ cls_ret = Null
    /\ ~cls_escaped
    /\ \E e \in {IF cls_title.t # "str" THEN "TypeError" ELSE "none"} :
       \E h \in {Catch(ExtractTechHandlers, e)} :
          /\ cls_escaped' = (e # "none" /\ h = "")
          /\ cls_log' = IF e # "none" /\ h # "" THEN <<"extract_warning">> ELSE <<>>
          /\ cls_ret' = IF e # "none" /\ h = "" THEN Null
                        ELSE Str(extract_tech(cls_title))
    /\ UNCHANGED cls_title

InitClassify ==
    /\ InitBase
    /\ artifact = [path |-> <<>>, data |-> <<>>]
    /\ cls_title \in ClassifyInputs
    /\ cls_ret = Null
    /\ cls_log = <<>>
    /\ cls_escaped = FALSE
    /\ LoadIdle
    /\ FetchIdle

Classify ==
    /\ ExtractTechCall
    /\ UNCHANGED <<importVars, artifact, firstCounts, loadVars, fetchVars>>

NextClassify == Classify

SpecClassify == InitClassify /\ [][NextClassify]_vars

(* ---- load_jobs ---- *)
\* calls of load_jobs in one behaviour
MaxLoads == 1
\* the value pandas.to_datetime gives for a stored date
ToDatetime(d) == IF d = Null THEN [t |-> "NaT"] ELSE [d EXCEPT !.t = "datetime"]
\* lines 34-56: Job joined with JobLocation, Location and Tech, without the
\* rows of the Tech "Other" and of the Location "Deutschland"; one dict per
\* JobLocation row
QueryIds(T, L, J, JL) ==
    {i \in DOMAIN JL :
        /\ T[J[JL[i].job].tech].name # OtherTech
        /\ L[JL[i].location].display_name # SENTINEL}
QueryDict(T, L, J, row) ==
    [date |-> J[row.job].date, title |-> J[row.job].title,
     company |-> J[row.job].company,
     salary_is_predicted |-> J[row.job].salary_is_predicted,
     redirect_url |-> J[row.job].redirect_url,
     latitude |-> row.latitude, longitude |-> row.longitude,
     city |-> L[row.location].display_name, district |-> row.district,
     tech |-> T[J[row.job].tech].name]
\* line 59: pandas.DataFrame(list of dicts): the columns are the keys of the
\* dicts, so a table made from the empty list has no columns
DataFrame(ids, T, L, J, JL) ==
    [columns |-> IF ids = {} THEN {} ELSE DOMAIN QueryDict(T, L, J, JL[SetMin(ids)]),
     rows |-> {QueryDict(T, L, J, JL[i]) : i \in ids}]
\* line 62: df['date'] raises KeyError unless the table has the column
DateColumn(frame) ==
    IF "date" \in frame.columns
    THEN [exc |-> "none",
          frame |-> [frame EXCEPT !.rows =
                        {[row EXCEPT !.date = ToDatetime(@)] : row \in frame.rows}]]
    ELSE [exc |-> "KeyError", frame |-> Null]
\* lines 34-64: load_jobs has no try: what line 62 raises leaves the call
LoadJobs ==
    /\ pc = "idle"
    /\ loads < MaxLoads
    /\ loads' = loads + 1
    /\ \E res \in {DateColumn(DataFrame(QueryIds(techs, locs, jobs, jobLocs),
                                        techs, locs, jobs, jobLocs))} :
          /\ load_exc' = res.exc
          /\ df' = res.frame

Load ==
    /\ LoadJobs
    /\ UNCHANGED <<importVars, artifact, firstCounts, clsVars, fetchVars>>

NextLoad == Import \/ ProcessRecord \/ Finish \/ Load

SpecLoad == Init /\ [][NextLoad]_vars

(* ---- fetch_jobs ---- *)
\* requests of one call
MaxPages == 3
\* postings on one page
MaxPageSize == 2
\* raw postings, opaque to fetch_jobs
Posts == {"p1", "p2"}
List(items) == [t |-> "list", items |-> items]
PostLists == UNION {[1..n -> Posts] : n \in 0..MaxPageSize}
\* what a request can give: a RequestException (from requests.get or from
\* raise_for_status), a body that is no JSON, a JSON object whose "results"
\* is a list, is null or is missing
Responses ==
    {[t |-> "error"], [t |-> "notjson"]}
    \cup {[t |-> "ok", results |-> v] : v \in {Absent, Null} \cup {List(l) : l \in PostLists}}
\* os.getenv: None, the empty string, a value
Credentials == {Null, Str(<<>>), Str(<<"k">>)}

\* variant: None is refused, the empty string is not
HasCredentials_NotNone(id, key) == id # Null /\ key # Null
\* line 38: if not app_id or not app_key
HasCredentials(id, key) == Truthy(id) /\ Truthy(key)

PageResult(next, p, acc, pause, l, e) ==
    [pc |-> next, page |-> p, all_jobs |-> acc, pause |-> pause, log |-> l, exc |-> e]
\* variant: an empty page is skipped, not taken as the end
PageStep_SkipsEmpty(resp, p, acc) ==
    IF resp.t = "error" THEN PageResult("write", p, acc, <<>>, <<"request_error">>, "none")
    ELSE IF resp.t = "notjson"
    THEN PageResult("raise", p, acc, <<>>, <<>>, "JSONDecodeError")
    ELSE IF Get(resp.results, List(<<>>)) = Null
    THEN PageResult("write", p, acc, <<>>, <<"no_more_jobs">>, "none")
    ELSE PageResult("request", p + 1, acc \o Get(resp.results, List(<<>>)).items,
                    <<1>>, <<"page_loaded">>, "none")
\* variant: a failed request ends the call
PageStep_ErrorIsFatal(resp, p, acc) ==
    IF resp.t = "error"
    THEN PageResult("raise", p, acc, <<>>, <<"request_error">>, "RequestException")
    ELSE IF resp.t = "notjson"
    THEN PageResult("raise", p, acc, <<>>, <<>>, "JSONDecodeError")
    ELSE IF ~Truthy(Get(resp.results, List(<<>>)))
    THEN PageResult("write", p, acc, <<>>, <<"no_more_jobs">>, "none")
    ELSE PageResult("request", p + 1, acc \o Get(resp.results, List(<<>>)).items,
                    <<1>>, <<"page_loaded">>, "none")
\* variant: the pause comes right after the request, whatever it returned
PageStep_PausesFirst(resp, p, acc) ==
    IF resp.t = "error" THEN PageResult("write", p, acc, <<1>>, <<"request_error">>, "none")
    ELSE IF resp.t = "notjson"
    THEN PageResult("raise", p, acc, <<1>>, <<>>, "JSONDecodeError")
    ELSE IF ~Truthy(Get(resp.results, List(<<>>)))
    THEN PageResult("write", p, acc, <<1>>, <<"no_more_jobs">>, "none")
    ELSE PageResult("request", p + 1, acc \o Get(resp.results, List(<<>>)).items,
                    <<1>>, <<"page_loaded">>, "none")
\* lines 50-77: one pass of the while loop, resp being what the request gave:
\* where the call goes on, page, all_jobs, the arguments of the calls of
\* sleep_func, the logger calls, the exception raised outside the inner try
PageStep(resp, p, acc) ==
    IF resp.t = "error" THEN PageResult("write", p, acc, <<>>, <<"request_error">>, "none")
    ELSE IF resp.t = "notjson"
    THEN PageResult("raise", p, acc, <<>>, <<>>, "JSONDecodeError")
    ELSE IF ~Truthy(Get(resp.results, List(<<>>)))
    THEN PageResult("write", p, acc, <<>>, <<"no_more_jobs">>, "none")
    ELSE PageResult("request", p + 1, acc \o Get(resp.results, List(<<>>)).items,
                    <<1>>, <<"page_loaded">>, "none")

\* the except clause of fetch_jobs (line 94)
FetchHandlers == <<"Exception">>
GetEvent(p) == [k |-> "get", page |-> p]
SleepEvent(secs) == [k |-> "sleep", secs |-> secs]

\* lines 32-47: the credentials are read and tested
FetchStart(id, key) ==
    /\ fetch_pc = "idle"
    /\ app_id' = id
    /\ app_key' = key
    /\ \E e \in {IF HasCredentials(id, key) THEN "none" ELSE "ValueError"} :
       \E h \in {Catch(FetchHandlers, e)} :
          /\ fetch_pc' = IF e = "none" THEN "request" ELSE "done"
          /\ page' = IF e = "none" THEN 1 ELSE page
          /\ fetch_log' = IF e # "none" /\ h # "" THEN <<"fetch_exception">> ELSE <<>>
          /\ fetch_escaped' = (e # "none" /\ h = "")
    /\ all_jobs' = <<>>
    /\ UNCHANGED <<fetch_events, fetch_pages, fetch_file, fetch_ret>>

\* lines 50-77 and 94-96: one request and what follows it in the loop
RequestPage(resp) ==
    /\ fetch_pc = "request"
    /\ page <= MaxPages
    /\ \E res \in {PageStep(resp, page, all_jobs)} :
       \E h \in {Catch(FetchHandlers, res.exc)} :
          /\ fetch_pc' = IF res.pc = "raise" THEN "done" ELSE res.pc
          /\ page' = res.page
          /\ all_jobs' = res.all_jobs
          /\ fetch_events' = fetch_events \o <<GetEvent(page)>>
                                \o [i \in DOMAIN res.pause |-> SleepEvent(res.pause[i])]
          /\ fetch_log' = fetch_log \o res.log
                             \o (IF res.pc = "raise" /\ h # ""
                                 THEN <<"fetch_exception">> ELSE <<>>)
          /\ fetch_escaped' = (res.pc = "raise" /\ h = "")
    /\ fetch_pages' = Append(fetch_pages, resp)
    /\ UNCHANGED <<app_id, app_key, fetch_file, fetch_ret>>

\* lines 79-92: the file named after the day is written, or IOError is logged
WriteFile(ok, filename) ==
    /\ fetch_pc = "write"
    /\ fetch_pc' = "done"
    /\ fetch_file' = IF ok THEN [name |-> filename, data |-> all_jobs] ELSE fetch_file
    /\ fetch_ret' = IF ok THEN Str(filename) ELSE Null
    /\ fetch_log' = IF ok THEN fetch_log ELSE Append(fetch_log, "write_error")
    /\ UNCHANGED <<app_id, app_key, page, all_jobs, fetch_events, fetch_pages,
                   fetch_escaped>>

InitFetch ==
    /\ InitBase
    /\ artifact = [path |-> <<>>, data |-> <<>>]
    /\ ClsIdle
    /\ LoadIdle
    /\ FetchIdle

Start ==
    /\ \E id \in Credentials, key \in Credentials : FetchStart(id, key)
    /\ UNCHANGED <<importVars, artifact, firstCounts, clsVars, loadVars>>

Request ==
    /\ \E resp \in Responses : RequestPage(resp)
    /\ UNCHANGED <<importVars, artifact, firstCounts, clsVars, loadVars>>

Write ==
    /\ \E ok \in BOOLEAN, filename \in {PathDay1, PathDay2} : WriteFile(ok, filename)
    /\ UNCHANGED <<importVars, artifact, firstCounts, clsVars, loadVars>>

NextFetch == Start \/ Request \/ Write

SpecFetch == InitFetch /\ [][NextFetch]_vars

(* ---- properties ---- *)
\* the step is one iteration of the loop, on job_data'
IsProcessStep == pc = "loop" /\ seen' = seen + 1
\* the step is a call of import_jobs_from_json
IsImportStep == imports' = imports + 1
IsMapping(r) == r.t = "obj"
LocationIsMapping(r) == Get(r.location, Obj(Absent)).t = "obj"
\* the record names a city
NamesCity(r) ==
    /\ IsMapping(r)
    /\ LocationIsMapping(r)
    /\ DisplayNameOf(r).t = "str"
    /\ DisplayNameOf(r).s # <<>>
    /\ DisplayNameOf(r).s # SENTINEL
\* the identity of a JobLocation row, by natural keys
RowKey(row, J, L) == <<J[row.job].job_id, L[row.location].display_name, row.district>>
\* the identity the record asks for
RecordKey(r) ==
    <<Get(r.id, Null), LocationOf[DisplayNameOf(r).s].city,
      LocationOf[DisplayNameOf(r).s].district>>

\* C2: no two JobLocation rows have the same (job, location, district), a null
\* district being a value of its own
C2_JobLocationUnique ==
    \A i, j \in DOMAIN jobLocs :
        (/\ jobLocs[i].job = jobLocs[j].job
         /\ jobLocs[i].location = jobLocs[j].location
         /\ jobLocs[i].district = jobLocs[j].district) => i = j
\* a record without district whose row exists has been processed again: the
\* lookup found the row with the null district and no row was added
C2_Witness ==
    /\ exc = "none"
    /\ NamesCity(job_data)
    /\ RecordKey(job_data)[3] = Null
    /\ "Job.save" \in writes
    /\ "JobLocation.create" \notin writes
    /\ Len(jobLocs) = 1
    /\ RowKey(jobLocs[1], jobs, locs) = RecordKey(job_data)

\* C5: the stored date of every Job is the date of the import that inserted
\* its external id, whatever the dates of the imports that met the id later
C5_FirstSeenDateWins ==
    \A i \in DOMAIN jobs :
        /\ firstDate[jobs[i].job_id].set
        /\ jobs[i].date = firstDate[jobs[i].job_id].date
\* an import with another date has just updated an existing Job
C5_Witness ==
    /\ exc = "none"
    /\ "Job.save" \in writes
    /\ \E i \in DOMAIN jobs :
          /\ jobs[i].job_id = job_data.id
          /\ jobs[i].date # job_date
          /\ jobs[i].date # Null
          /\ job_date # Null

\* the Job fields a record asks for (lines 105-110)
WantedTitle(f) == Get(f.title, Str(<<>>))
WantedCompany(f) == Get(Get(f.company, Obj(Absent)).display_name, Str(""))
\* C6: after a record with an id is processed without error, the Job of that
\* id holds the record's title, description, salary flag, URL and company, and
\* refers to the Tech named by extract_tech(title)
C6_LastRecordWins ==
    \A i \in DOMAIN jobs :
        LET h == lastRec[jobs[i].job_id]
        IN h.set =>
            /\ jobs[i].title = WantedTitle(h.f)
            /\ jobs[i].description = Get(h.f.description, Str(""))
            /\ jobs[i].salary_is_predicted
                  = (Get(h.f.salary_is_predicted, Null) = Str("1"))
            /\ jobs[i].redirect_url = Get(h.f.redirect_url, Str(""))
            /\ jobs[i].company = WantedCompany(h.f)
            /\ jobs[i].tech \in DOMAIN techs
            /\ techs[jobs[i].tech].name = TechOfTitle[WantedTitle(h.f)]
\* a Job inserted with one set of fields has just been overwritten by a record
\* with another title, company and technology
C6_Witness ==
    /\ exc = "none"
    /\ "Job.save" \in writes
    /\ "Tech.create" \in writes
    /\ RawFields(job_data) = FieldsB
    /\ \E i \in DOMAIN jobs :
          /\ jobs[i].job_id = job_data.id
          /\ jobs[i].company = Str("c2")
          /\ techs[jobs[i].tech].name = TechOfTitle[Str(TitleJava)]
          /\ jobs[i].tech = Len(techs)

\* the rows the record's triple names, before the step
RowsOfKey(r) ==
    {i \in DOMAIN jobLocs : RowKey(jobLocs[i], jobs, locs) = RecordKey(r)}
\* the record was processed to the end and names a city
PlacedStep == IsProcessStep /\ exc' = "none" /\ NamesCity(job_data')
\* the new value of a coordinate: the incoming one if it is there and differs
Merged(stored, incoming) ==
    IF incoming # Null /\ incoming # stored THEN incoming ELSE stored

\* C7: a record whose JobLocation exists changes latitude and longitude
\* independently, each only to a non-null incoming value that differs; nothing
\* else of the row changes, and there is a write only if one of them changed
C7_CoordinatesOnlyOnChange ==
    [][(PlacedStep /\ RowsOfKey(job_data') # {}) =>
        LET lat == Get(job_data'.latitude, Null)
            lon == Get(job_data'.longitude, Null)
        IN /\ Len(jobLocs') = Len(jobLocs)
           /\ \A i \in DOMAIN jobLocs :
                 IF i \in RowsOfKey(job_data')
                 THEN /\ jobLocs'[i].latitude = Merged(jobLocs[i].latitude, lat)
                      /\ jobLocs'[i].longitude = Merged(jobLocs[i].longitude, lon)
                      /\ jobLocs'[i].job = jobLocs[i].job
                      /\ jobLocs'[i].location = jobLocs[i].location
                      /\ jobLocs'[i].district = jobLocs[i].district
                      /\ ("JobLocation.save" \in writes') = (jobLocs'[i] # jobLocs[i])
                 ELSE jobLocs'[i] = jobLocs[i]
           /\ "JobLocation.create" \notin writes'
      ]_vars
\* a record with a new latitude and no longitude has updated a row that keeps
\* its longitude
C7_Witness ==
    /\ exc = "none"
    /\ "JobLocation.save" \in writes
    /\ NamesCity(job_data)
    /\ job_data.latitude = Num(2)
    /\ job_data.longitude = Null
    /\ \E i \in DOMAIN jobLocs :
          /\ RowKey(jobLocs[i], jobs, locs) = RecordKey(job_data)
          /\ jobLocs[i].latitude = Num(2)
          /\ jobLocs[i].longitude = Num(1)

\* C8: a record gets a row of its own unless a row with exactly its (job,
\* city, district) exists, a null district matching null only; rows of the same
\* job and city with another district are left as they are
C8_DistrictIsIdentity ==
    [][PlacedStep =>
        /\ \A i \in DOMAIN jobLocs :
              i \notin RowsOfKey(job_data') => jobLocs'[i] = jobLocs[i]
        /\ IF RowsOfKey(job_data') = {}
           THEN /\ Len(jobLocs') = Len(jobLocs) + 1
                /\ RowKey(jobLocs'[Len(jobLocs')], jobs', locs') = RecordKey(job_data')
                /\ "JobLocation.create" \in writes'
           ELSE /\ Len(jobLocs') = Len(jobLocs)
                /\ "JobLocation.create" \notin writes'
      ]_vars
\* a record without district has just got its own row next to a row of the
\* same job and city that has a district
C8_Witness ==
    /\ exc = "none"
    /\ "JobLocation.create" \in writes
    /\ NamesCity(job_data)
    /\ RecordKey(job_data)[3] = Null
    /\ \E i \in DOMAIN jobLocs :
          /\ i # Len(jobLocs)
          /\ jobLocs[i].job = jobLocs[Len(jobLocs)].job
          /\ jobLocs[i].location = jobLocs[Len(jobLocs)].location
          /\ jobLocs[i].district # Null
          /\ jobLocs[Len(jobLocs)].district = Null

\* the display name is absent or is the sentinel
NamesNoCity(r) ==
    /\ IsMapping(r)
    /\ LocationIsMapping(r)
    /\ DisplayNameOf(r) \in {Null, Str(SENTINEL)}
\* C9: a record whose display name is absent or "Deutschland" leaves the
\* JobLocation and Location rows as they are, and its Job is inserted or saved
C9_SentinelHasNoLocation ==
    [][(IsProcessStep /\ NamesNoCity(job_data')) =>
        /\ jobLocs' = jobLocs
        /\ locs' = locs
        /\ writes' \cap {"Location.create", "JobLocation.create", "JobLocation.save"} = {}
        /\ exc' = "none" =>
              /\ writes' \cap {"Job.create", "Job.save"} # {}
              /\ \E i \in DOMAIN jobs' : jobs'[i].job_id = job_data'.id
      ]_vars
\* a "Deutschland" record has inserted the first Job and no row elsewhere
C9_Witness ==
    /\ exc = "none"
    /\ IsMapping(job_data)
    /\ DisplayNameOf(job_data) = Str(SENTINEL)
    /\ "Job.create" \in writes
    /\ Len(jobs) = 1
    /\ jobLocs = <<>>
    /\ locs = <<>>

\* C10: a call on a missing file or on a file that is not JSON ends with a
\* logged error, iterates nothing, leaves the four tables as they are and
\* lets no exception out
C10_BadArtifactAborts ==
    [][(IsImportStep /\ content' \in {"missing", "invalid"}) =>
        /\ db' = db
        /\ pc' = "idle"
        /\ outcome' = "aborted"
        /\ seen' = seen
        /\ remaining' = 0
        /\ writes' = {}
        /\ escaped' = FALSE
        /\ log' # <<>>
        /\ log'[Len(log')] \in {"not_found_error", "decode_error", "import_exception"}
      ]_vars
\* a call on a file that is not JSON has ended, with rows in the tables
C10_Witness ==
    /\ content = "invalid"
    /\ outcome = "aborted"
    /\ log = <<"decode_error">>
    /\ imports = 2
    /\ jobs # <<>>
    /\ jobLocs # <<>>

\* C3: when a call has returned, no element of the loaded list is left
\* untried, whatever happened to the elements before it
C3_EveryRecordAttempted == pc = "idle" => remaining = 0

\* C4: a call on an existing JSON list whose path has no date, or a date that
\* is no calendar date, enters the loop, and the Jobs it inserts have no date
C4_UndatedImportProceeds ==
    (/\ imports > 0
     /\ content = "list"
     /\ DateOf[json_path].t \in {"null", "ValueError"}) =>
        /\ ~(outcome = "aborted" /\ job_data = Null)
        /\ "Job.create" \in writes => jobs[Len(jobs)].date = Null

\* C1: when the call on the same artifact has returned a second time, the
\* four tables have as many rows as when it returned the first time
C1_ReimportKeepsCounts ==
    (pc = "idle" /\ imports >= 2) => Counts = firstCounts
\* a snapshot with a repeated id, a failing element and rows in every table
\* has been imported twice
C1_Witness ==
    /\ pc = "idle"
    /\ imports = 2
    /\ outcome = "completed"
    /\ Len(artifact.data) = 2
    /\ IsMapping(artifact.data[1])
    /\ artifact.data[1].id = Str("j1")
    /\ artifact.data[2] \in
          {MapRecord(Str("j1"), FieldsNullTitle, Obj(Str(NameBerlin)), Num(1), Num(1))}
    /\ Counts = [techs |-> 2, locs |-> 1, jobs |-> 1, jobLocs |-> 1]

(* ---- extract_tech ---- *)
\* the call has returned a label for a string
Classified == cls_ret # Null /\ cls_title.t = "str"
\* the positions of the tokens that equal a lower-cased vocabulary member
VocabularyTokens(ws) ==
    {k \in DOMAIN ws : \E tech \in KNOWN_TECHS : Lower(tech) = ws[k]}
\* C14: extract_tech returns the one vocabulary member whose lower-cased form
\* is the leftmost token of the cleaned, lower-cased title that equals a
\* lower-cased vocabulary member (whole tokens only, no other member has that
\* lower-cased form), and "Other" when no token does
C14_LeftmostTokenWins ==
    Classified =>
        \E ws \in {TitleWords(cls_title.s)} :
            IF VocabularyTokens(ws) = {}
            THEN cls_ret = Str(OtherTech)
            ELSE \E k \in {SetMin(VocabularyTokens(ws))} :
                    /\ cls_ret.s \in KNOWN_TECHS
                    /\ Lower(cls_ret.s) = ws[k]
                    /\ \A tech \in KNOWN_TECHS : Lower(tech) = ws[k] => tech = cls_ret.s
                    /\ \A a, b \in KNOWN_TECHS : Lower(a) = Lower(b) => a = b
\* "JavaScripting python" is classified as Python: the first token, which only
\* starts with vocabulary members, matched nothing
C14_Witness ==
    /\ cls_title = Str(<<"J", "a", "v", "a", "S", "c", "r", "i", "p", "t", "i", "n", "g", " ", "p", "y", "t", "h", "o", "n">>)
    /\ cls_ret = Str(<<"P", "y", "t", "h", "o", "n">>)

\* C15: every call of extract_tech returns, raising nothing, a member of the
\* vocabulary or "Other": for strings, the empty string and values that are
\* no string alike
C15_ClassifyIsTotal ==
    [][/\ ~cls_escaped'
       /\ cls_ret' # Null
       /\ cls_ret'.t = "str"
       /\ cls_ret'.s \in KNOWN_TECHS \cup {OtherTech}
       /\ cls_title'.t # "str" => cls_ret' = Str(OtherTech)
       /\ cls_title' = Str(<<>>) => cls_ret' = Str(OtherTech)
      ]_vars
\* the call on a null title has returned "Other" after the warning
C15_Witness ==
    /\ cls_title = Null
    /\ cls_ret = Str(OtherTech)
    /\ cls_log = <<"extract_warning">>
    /\ ~cls_escaped

\* the title with every slash replaced by a space
SlashToSpace(s) == [i \in 1..Len(s) |-> IF s[i] = "/" THEN " " ELSE s[i]]
HasSlash(s) == \E i \in 1..Len(s) : s[i] = "/"
\* a slash with a letter right after it
SlashBeforeText(s) ==
    \E i \in 1..(Len(s) - 1) :
        s[i] = "/" /\ s[i + 1] \notin {" ", "/", "-", ",", "(", ")"}
\* C18 as stated: on a title with text after a slash the cleaning step removes
\* more than the slash, and some title with a slash is classified otherwise
\* than the same title with only the slash characters removed
C18_SlashDeletesFollowingText ==
    (Classified /\ SlashBeforeText(cls_title.s)) =>
        /\ CleanTitle(cls_title.s, 1) # CleanTitle(SlashToSpace(cls_title.s), 1)
        /\ \E t \in ClassifyInputs :
              /\ t.t = "str"
              /\ HasSlash(t.s)
              /\ extract_tech(t) # extract_tech(Str(SlashToSpace(t.s)))
\* C18 amended: the cleaning step replaces a slash by one space and leaves the
\* text after it in place, so every title is classified as the same title
\* with only its slash characters removed
C18_SlashAloneIsRemoved ==
    (Classified /\ HasSlash(cls_title.s)) =>
        /\ cls_ret = Str(extract_tech(Str(SlashToSpace(cls_title.s))))
        /\ CleanTitle(SlashToSpace(cls_title.s), 1) = CleanTitle(cls_title.s, 1)
\* "Senior/python" is classified by the word after the slash
C18_Witness ==
    /\ cls_title = Str(<<"S", "e", "n", "i", "o", "r", "/", "p", "y", "t", "h", "o", "n">>)
    /\ cls_ret = Str(<<"P", "y", "t", "h", "o", "n">>)

(* ---- the location of a record ---- *)
\* the city and the district the display name dn stands for: two parts are
\* district and city, anything else is a city as a whole
StatedLocation(dn) ==
    IF Len(LocationParts(dn)) = 2
    THEN [district |-> Str(LocationParts(dn)[1]), city |-> LocationParts(dn)[2]]
    ELSE [district |-> Null, city |-> dn]
\* C17: a record that names a city and is processed to the end has a
\* JobLocation row whose district and Location are the ones its display name
\* stands for: (district, city) for two parts, else no district and the whole
\* display name as the city
C17_DisplayNameParsed ==
    [][PlacedStep =>
        \E p \in {StatedLocation(DisplayNameOf(job_data').s)} :
        \E i \in DOMAIN jobLocs' :
            /\ jobs'[jobLocs'[i].job].job_id = job_data'.id
            /\ jobLocs'[i].district = p.district
            /\ locs'[jobLocs'[i].location].display_name = p.city
      ]_vars

(* ---- records with absent fields ---- *)
\* the record has an id, and each other field is absent or of the expected shape
AbsentOrSound(r) ==
    /\ IsMapping(r)
    /\ r.id \in JobIds
    /\ r.title = Absent \/ r.title.t = "str"
    /\ r.description = Absent \/ r.description.t = "str"
    /\ r.redirect_url = Absent \/ r.redirect_url.t = "str"
    /\ r.salary_is_predicted = Absent \/ r.salary_is_predicted.t = "str"
    /\ r.company = Absent \/ (r.company.t = "obj" /\ r.company.display_name.t = "str")
    /\ r.location = Absent
          \/ (r.location.t = "obj"
              /\ (r.location.display_name = Absent \/ r.location.display_name.t = "str"))
    /\ r.latitude = Absent \/ r.latitude.t \in {"num", "null"}
    /\ r.longitude = Absent \/ r.longitude.t \in {"num", "null"}
SomeFieldAbsent(r) ==
    \/ Absent \in {r.title, r.description, r.redirect_url, r.salary_is_predicted,
                   r.company, r.location, r.latitude, r.longitude}
    \/ (r.location # Absent /\ r.location.display_name = Absent)
\* C19: a record with absent fields is processed to the end: its Job is
\* inserted or saved and holds the empty string (False for the salary flag) in
\* place of each absent field; an absent location adds no Location row
C19_AbsentFieldsDefault ==
    [][(IsProcessStep /\ AbsentOrSound(job_data') /\ SomeFieldAbsent(job_data')) =>
        /\ exc' = "none"
        /\ writes' \cap {"Job.create", "Job.save"} # {}
        /\ \E i \in DOMAIN jobs' :
              /\ jobs'[i].job_id = job_data'.id
              /\ job_data'.title = Absent => jobs'[i].title = Str(<<>>)
              /\ job_data'.description = Absent => jobs'[i].description = Str("")
              /\ job_data'.redirect_url = Absent => jobs'[i].redirect_url = Str("")
              /\ job_data'.company = Absent => jobs'[i].company = Str("")
              /\ job_data'.salary_is_predicted = Absent
                    => jobs'[i].salary_is_predicted = FALSE
        /\ job_data'.location = Absent => (locs' = locs /\ jobLocs' = jobLocs)
      ]_vars
\* a record with nothing but an id and a location has inserted its Job
C19_Witness ==
    /\ exc = "none"
    /\ IsMapping(job_data)
    /\ RawFields(job_data) = FieldsBare
    /\ "Job.create" \in writes
    /\ jobs[Len(jobs)].title = Str(<<>>)
    /\ jobs[Len(jobs)].company = Str("")
    /\ techs[jobs[Len(jobs)].tech].name = OtherTech

(* ---- load_jobs ---- *)
IsLoadStep == loads' = loads + 1
\* C16: a call of load_jobs whose query yields no rows returns a table
\* without rows and raises nothing
C16_EmptyLoadReturnsEmpty ==
    [][(IsLoadStep /\ QueryIds(techs, locs, jobs, jobLocs) = {}) =>
        /\ load_exc' = "none"
        /\ df' # Null
        /\ df'.rows = {}
      ]_vars

(* ---- fetch_jobs ---- *)
\* the request returned a list with postings in it
NonEmptyPage(resp) ==
    /\ resp.t = "ok"
    /\ resp.results \notin {Absent, Null}
    /\ resp.results.items # <<>>
\* the postings of the first k pages, in page order
RECURSIVE PagesJobs(_, _)
PagesJobs(pages, k) ==
    IF k = 0 THEN <<>>
    ELSE PagesJobs(pages, k - 1)
            \o (IF NonEmptyPage(pages[k]) THEN pages[k].results.items ELSE <<>>)
\* the pages requested, in the order of the requests
RequestedPages ==
    [i \in 1..Len(SelectSeq(fetch_events, LAMBDA ev : ev.k = "get")) |->
        SelectSeq(fetch_events, LAMBDA ev : ev.k = "get")[i].page]
\* the page with an empty or missing result list
EndPage(resp) == resp.t = "ok" /\ ~NonEmptyPage(resp)

\* C11: the pages are requested in the order 1, 2, 3, ..., none after a page
\* whose result list is empty or missing, and the file written holds the
\* postings of the pages before that page, in page order
C11_StopsAtFirstEmptyPage ==
    /\ RequestedPages = [i \in 1..Len(fetch_pages) |-> i]
    /\ \A i \in 1..(Len(fetch_pages) - 1) : NonEmptyPage(fetch_pages[i])
    /\ (fetch_pages # <<>> /\ EndPage(fetch_pages[Len(fetch_pages)])) =>
          /\ fetch_pc \in {"write", "done"}
          /\ all_jobs = PagesJobs(fetch_pages, Len(fetch_pages) - 1)
          /\ fetch_file # Null => fetch_file.data = PagesJobs(fetch_pages, Len(fetch_pages) - 1)
\* two postings on page 1 and none on page 2: a file of the two, two requests
C11_Witness ==
    /\ fetch_pc = "done"
    /\ fetch_pages = <<[t |-> "ok", results |-> List(<<"p1", "p2">>)],
                       [t |-> "ok", results |-> List(<<>>)]>>
    /\ fetch_file # Null
    /\ fetch_file.data = <<"p1", "p2">>
    /\ RequestedPages = <<1, 2>>

\* the request failed
FailedPage(resp) == resp.t = "error"
\* C12: when the request for page k fails no further page is requested, and
\* unless the file cannot be written it holds the postings of pages 1..k-1 and
\* its name is returned; no exception reaches the caller
C12_FailedRequestKeepsPages ==
    (fetch_pages # <<>> /\ FailedPage(fetch_pages[Len(fetch_pages)])) =>
        /\ fetch_pc \in {"write", "done"}
        /\ ~fetch_escaped
        /\ all_jobs = PagesJobs(fetch_pages, Len(fetch_pages) - 1)
        /\ "request_error" \in {fetch_log[i] : i \in DOMAIN fetch_log}
        /\ (fetch_pc = "done" /\ "write_error" \notin {fetch_log[i] : i \in DOMAIN fetch_log}) =>
              /\ fetch_file # Null
              /\ fetch_file.data = PagesJobs(fetch_pages, Len(fetch_pages) - 1)
              /\ fetch_ret = Str(fetch_file.name)
\* page 1 gave two postings, the request for page 2 failed: the file holds
\* the two and its name was returned
C12_Witness ==
    /\ fetch_pc = "done"
    /\ Len(fetch_pages) = 2
    /\ FailedPage(fetch_pages[2])
    /\ fetch_file # Null
    /\ fetch_file.data = <<"p1", "p2">>
    /\ fetch_ret = Str(fetch_file.name)

C20_OnePauseBetweenRequests ==
    /\ fetch_events # <<>> => fetch_events[1] = GetEvent(1)
    /\ \A i \in DOMAIN fetch_events :
          IF fetch_events[i].k = "sleep"
          THEN /\ fetch_events[i].secs = 1
               /\ i > 1
               /\ fetch_events[i - 1].k = "get"
               /\ NonEmptyPage(fetch_pages[fetch_events[i - 1].page])
          ELSE /\ i > 1 => fetch_events[i - 1].k = "sleep"
               /\ IF NonEmptyPage(fetch_pages[fetch_events[i].page])
                  THEN i < Len(fetch_events) /\ fetch_events[i + 1].k = "sleep"
                  ELSE i = Len(fetch_events)
\* three requests, the third one failing: a pause after the first and after
\* the second, none after the third
C20_Witness ==
    /\ fetch_pc = "done"
    /\ Len(fetch_pages) = 3
    /\ FailedPage(fetch_pages[3])
    /\ fetch_events = <<GetEvent(1), SleepEvent(1), GetEvent(2), SleepEvent(1), GetEvent(3)>>

(* ---- the keyed tables ---- *)
\* rows is what it was, with rows added at the end at most
Extends(rows, old) ==
    /\ Len(rows) >= Len(old)
    /\ \A i \in DOMAIN old : rows[i] = old[i]
\* C21: after every step of every sequence of imports there is at most one Job
\* per external id, one Tech per label and one Location per city name, and the
\* Tech and Location rows there were are all still there, unchanged
C21_KeyedTablesAppendOnly ==
    [][/\ \A i, j \in DOMAIN jobs' : jobs'[i].job_id = jobs'[j].job_id => i = j
       /\ \A i, j \in DOMAIN techs' : techs'[i].name = techs'[j].name => i = j
       /\ \A i, j \in DOMAIN locs' :
             locs'[i].display_name = locs'[j].display_name => i = j
       /\ Extends(techs', techs)
       /\ Extends(locs', locs)
      ]_vars
\* a second Job has been inserted that shares the Tech and the Location of the
\* first: one row in each of the two tables, referred to by both
C21_Witness ==
    /\ exc = "none"
    /\ "Job.create" \in writes
    /\ "Tech.create" \notin writes
    /\ "Location.create" \notin writes
    /\ "JobLocation.create" \in writes
    /\ Len(jobs) = 2
    /\ Len(techs) = 1
    /\ Len(locs) = 1
    /\ jobs[1].tech = jobs[2].tech
    /\ jobLocs[1].location = jobLocs[Len(jobLocs)].location
    /\ jobLocs[1].job # jobLocs[Len(jobLocs)].job
====
